---- MODULE Spec2Model ----
(***************************************************************************)
(* Model of the command execution core of lib/cros_build_lib.py:          *)
(* RunCommand (single attempt, optional SIGINT guard) and OldRunCommand   *)
(* (legacy protocol with a bounded retry loop).                           *)
(*                                                                         *)
(* A call is followed from its entry to its return or raise.  The steps   *)
(* of a call are cut at the blocking library calls (Popen, signal.signal, *)
(* Popen.communicate); everything the function does between two of them   *)
(* belongs to one action.  The child process is the environment: whether  *)
(* the spawn succeeds, what the child prints and its exit code are chosen *)
(* nondeterministically from small sets.                                  *)
(***************************************************************************)
EXTENDS Integers, Sequences, FiniteSets, TLC

VARIABLES
  sigint,   \* the process-wide SIGINT handler slot (signal module state)
  call      \* per thread: the frame of the call in progress and its effects

vars == <<sigint, call>>

---------------------------------------------------------------------------
(* Bounds of the model *)

\* largest num_retries a caller passes
MaxRetries == 2
\* largest exit status of the child
MaxExit == 2

Threads == {"t1", "t2"}
\* the thread that makes calls when calls are serialized
MainThread == "t1"

---------------------------------------------------------------------------
(* Python values *)

\* None is the empty sequence, any other value v is <<v>>
None == <<>>
Some(v) == <<v>>

\* truth value of an optional string: None and '' are false
Truthy(x) == x # None /\ x[1] # ""

\* mutant of PyOr: the captured stdout is preferred to the captured stderr
PyOr_StdoutFirst(a, b, c) ==
  IF Truthy(a) THEN a[1]
  ELSE IF Truthy(c) THEN c[1]
  ELSE IF Truthy(b) THEN b[1]
  ELSE ""

\* Python's  a or b or c or ''  over optional strings, as a string
PyOr(a, b, c) ==
  IF Truthy(a) THEN a[1]
  ELSE IF Truthy(b) THEN b[1]
  ELSE IF Truthy(c) THEN c[1]
  ELSE ""

\* a command is a str or a list of str
StrCmd(s) == [form |-> "str", s |-> s, l |-> <<>>]
ListCmd(l) == [form |-> "list", s |-> "", l |-> l]

RECURSIVE Join(_)
\* ' '.join(l)
Join(l) ==
  IF Len(l) = 0 THEN ""
  ELSE IF Len(l) = 1 THEN l[1]
  ELSE l[1] \o " " \o Join(Tail(l))

RECURSIVE ReprItems(_)
ReprItems(l) ==
  IF Len(l) = 0 THEN ""
  ELSE IF Len(l) = 1 THEN "'" \o l[1] \o "'"
  ELSE "'" \o l[1] \o "', " \o ReprItems(Tail(l))

\* '%r' % cmd
Repr(cmd) ==
  IF cmd.form = "str" THEN "'" \o cmd.s \o "'"
  ELSE "[" \o ReprItems(cmd.l) \o "]"

---------------------------------------------------------------------------
(* Inputs *)

Handlers == {"default_int_handler", "SIG_IGN"}

Cmds == {StrCmd("ls"), ListCmd(<<"ls", "-l">>), ListCmd(<<>>)}

ErrorMessages == {None, Some("custom")}

\* what the child may write to its stdout and stderr
ChildOut == {"", "out"}
ChildErr == {"", "err"}

ExitCodes == 0..MaxExit

RetryCounts == (-1)..MaxRetries

RunCommandArgs ==
  [cmd: Cmds, print_cmd: BOOLEAN, error_ok: BOOLEAN,
   error_message: ErrorMessages, exit_code: BOOLEAN,
   redirect_stdout: BOOLEAN, redirect_stderr: BOOLEAN,
   enter_chroot: BOOLEAN, ignore_sigint: BOOLEAN, num_retries: {0}]

OldRunCommandArgs ==
  [cmd: Cmds, print_cmd: BOOLEAN, error_ok: BOOLEAN,
   error_message: ErrorMessages, exit_code: BOOLEAN,
   redirect_stdout: BOOLEAN, redirect_stderr: BOOLEAN,
   enter_chroot: BOOLEAN, ignore_sigint: {FALSE}, num_retries: RetryCounts]

---------------------------------------------------------------------------
(* CommandResult *)

CommandResult == [cmd |-> None, error |-> None, output |-> None,
                  returncode |-> None]

---------------------------------------------------------------------------
(* The frame of a call *)

NoArgs == [cmd |-> ListCmd(<<>>), print_cmd |-> FALSE, error_ok |-> FALSE,
           error_message |-> None, exit_code |-> FALSE,
           redirect_stdout |-> FALSE, redirect_stderr |-> FALSE,
           enter_chroot |-> FALSE, ignore_sigint |-> FALSE,
           num_retries |-> 0]

Idle ==
  [fn |-> "none", pc |-> "idle", args |-> NoArgs,
   \* locals
   cmd |-> ListCmd(<<>>), cmd_str |-> "", old_sigint |-> None,
   retry_count |-> 0, output |-> None, error |-> None,
   returncode |-> None, pending |-> "", pending_msg |-> "",
   cmd_result |-> CommandResult,
   \* how the call ended
   ret_shape |-> "", ret_int |-> None, ret_output |-> None,
   exc |-> "", exc_msg |-> "",
   \* what the call did
   pre_sigint |-> None, child |-> "none", spawns |-> 0,
   warnings |-> 0, last_warning |-> "", infos |-> 0, last_info |-> "",
   attempts |-> <<>>, popen |-> <<>>, overlapped |-> FALSE]

---------------------------------------------------------------------------
(* Pieces shared by the two functions *)

\* subprocess.Popen raises for an empty argument list; otherwise the spawn
\* may succeed or fail
CanSpawn(cmd) == cmd.form = "str" \/ Len(cmd.l) > 0

\* the exception Popen raises when the child cannot be created
SpawnError(cmd) == IF CanSpawn(cmd) THEN "OSError" ELSE "IndexError"

SpawnErrorText(cmd) ==
  IF CanSpawn(cmd) THEN "[Errno 2] No such file or directory"
  ELSE "list index out of range"

\* mutant of Captured: the stream is read whether or not it is a pipe
Captured_Always(piped, data) == Some(data)

\* what communicate() returns for a stream: its data if it is a pipe, else None
Captured(piped, data) == IF piped THEN Some(data) ELSE None

\* Warning(message)
Warn(c, message) ==
  [c EXCEPT !.warnings = @ + 1, !.last_warning = message]

\* Info(message)
Inform(c, message) ==
  [c EXCEPT !.infos = @ + 1, !.last_info = message]

\* the frame once the function has returned
Returned(c, shape, int, output) ==
  [c EXCEPT !.pc = "returned", !.ret_shape = shape, !.ret_int = int,
            !.ret_output = output]

\* the frame once an exception has left the function
Raised(c, e, msg) ==
  [c EXCEPT !.pc = "raised", !.exc = e, !.exc_msg = msg]

\* subprocess.Popen(cmd, cwd=cwd, stdin=stdin, stdout=stdout, stderr=stderr)
\* is called: the arguments of the call, stdout and stderr being
\* subprocess.PIPE or None
Popen(c) ==
  [c EXCEPT !.popen = Append(@,
     [cmd |-> c.cmd,
      stdout |-> IF c.args.redirect_stdout THEN "PIPE" ELSE "None",
      stderr |-> IF c.args.redirect_stderr THEN "PIPE" ELSE "None"])]

\* a call begins in thread t with frame f: the frames once it has begun.  The
\* calls in progress in other threads now overlap with it.
Begin(t, f) ==
  [u \in Threads |->
     IF u = t
       THEN [f EXCEPT !.overlapped = \E v \in Threads \ {t} : call[v].pc # "idle"]
     ELSE IF call[u].pc # "idle" THEN [call[u] EXCEPT !.overlapped = TRUE]
     ELSE call[u]]

\* a call may begin in thread t: the thread is not in a call, and the results
\* of the calls that have ended have been taken
MayBegin(t) ==
  /\ call[t].pc = "idle"
  /\ \A u \in Threads : call[u].pc \notin {"returned", "raised"}

\* one more attempt in the record of the call: how it ended, the exit code
\* of the child and what communicate() returned for its stdout
Attempt(c, kind, code, output) ==
  [c EXCEPT !.attempts =
     Append(@, [kind |-> kind, code |-> code, output |-> output])]

---------------------------------------------------------------------------
(* RunCommand *)

\* if enter_chroot: cmd = './enter_chroot.sh -- ' + cmd   (str)
\*                  cmd = ['./enter_chroot.sh', '--'] + cmd   (list)
RunCommandRewrite(cmd, enter_chroot) ==
  IF ~enter_chroot THEN cmd
  ELSE IF cmd.form = "str" THEN StrCmd("./enter_chroot.sh -- " \o cmd.s)
  ELSE ListCmd(<<"./enter_chroot.sh", "--">> \o cmd.l)

\* cmd_str
CmdStr(cmd) == IF cmd.form = "str" THEN cmd.s ELSE Join(cmd.l)

\* mutant of RunCommandFails: the exit code is not consulted
RunCommandFails_IgnoresReturncode(error_ok, returncode) == ~error_ok

\* mutant of RunCommandFails: error_ok is not consulted
RunCommandFails_IgnoresErrorOk(error_ok, returncode) == returncode # 0

\* if not error_ok and proc.returncode
RunCommandFails(error_ok, returncode) == ~error_ok /\ returncode # 0

\* 'Command "%s" failed.\n' % cmd_str +
\*    (error_message or cmd_result.error or cmd_result.output or '')
RunCommandMessage(cmd_str, error_message, error, output) ==
  "Command \"" \o cmd_str \o "\" failed.\n"
    \o PyOr(error_message, error, output)

\* mutant of RunCommandExcept: the exception is always re-raised
RunCommandExcept_AlwaysRaises(c, e, msg) == Raised(c, e, msg)

\* mutant of RunCommandExcept: the exception is always swallowed
RunCommandExcept_AlwaysWarns(c, e, msg) ==
  Returned(Warn(c, msg), "CommandResult", None, None)

\* except Exception, e:  re-raise unless error_ok, else warn;  return cmd_result
RunCommandExcept(c, e, msg) ==
  IF ~c.args.error_ok THEN Raised(c, e, msg)
  ELSE Returned(Warn(c, msg), "CommandResult", None, None)

\* the setup of RunCommand up to the try block
RunCommandEntry(a, handler) ==
  LET cmd == RunCommandRewrite(a.cmd, a.enter_chroot)
      cmd_str == CmdStr(cmd)
      c0 == [Idle EXCEPT !.fn = "RunCommand", !.pc = "spawn", !.args = a,
                         !.cmd = cmd, !.cmd_str = cmd_str,
                         !.pre_sigint = Some(handler),
                         !.cmd_result = [CommandResult EXCEPT !.cmd = Some(cmd)]]
  IN IF a.print_cmd THEN Inform(c0, "RunCommand: " \o cmd_str) ELSE c0

RunCommandBegins(t, args) ==
  /\ MayBegin(t)
  /\ \E a \in args : call' = Begin(t, RunCommandEntry(a, sigint))
  /\ UNCHANGED sigint

RunCommandCall(t) == RunCommandBegins(t, RunCommandArgs)

\* proc = subprocess.Popen(...) returns
RunCommandSpawn(t) ==
  LET c == call[t] IN
  /\ c.fn = "RunCommand" /\ c.pc = "spawn"
  /\ CanSpawn(c.cmd)
  /\ call' = [call EXCEPT ![t] =
       [Popen(c) EXCEPT
          !.pc = IF c.args.ignore_sigint THEN "guard" ELSE "communicate",
          !.child = "running", !.spawns = @ + 1]]
  /\ UNCHANGED sigint

\* subprocess.Popen(...) raises
RunCommandSpawnFails(t) ==
  LET c == call[t] IN
  /\ c.fn = "RunCommand" /\ c.pc = "spawn"
  /\ call' = [call EXCEPT ![t] =
       RunCommandExcept(Attempt(Popen(c), "spawn_error", None, None),
                        SpawnError(c.cmd), SpawnErrorText(c.cmd))]
  /\ UNCHANGED sigint

\* old_sigint = signal.signal(signal.SIGINT, signal.SIG_IGN)
RunCommandGuard(t) ==
  LET c == call[t] IN
  /\ c.fn = "RunCommand" /\ c.pc = "guard"
  /\ sigint' = "SIG_IGN"
  /\ call' = [call EXCEPT ![t] =
       [c EXCEPT !.pc = "communicate", !.old_sigint = Some(sigint)]]

\* (cmd_result.output, cmd_result.error) = proc.communicate(input) returns:
\* the child has written out and err and exited with code
RunCommandCommunicate(t) ==
  LET c == call[t] IN
  /\ c.fn = "RunCommand" /\ c.pc = "communicate"
  /\ \E code \in ExitCodes, out \in ChildOut, err \in ChildErr :
       call' = [call EXCEPT ![t] =
         [Attempt(c, "exit", Some(code),
                   Captured(c.args.redirect_stdout, out)) EXCEPT
            !.pc = "finally", !.child = "exited",
            !.returncode = Some(code),
            !.cmd_result = [@ EXCEPT
               !.output = Captured(c.args.redirect_stdout, out),
               !.error = Captured(c.args.redirect_stderr, err)]]]
  /\ UNCHANGED sigint

\* proc.communicate(input) raises; the child may or may not be gone
RunCommandCommunicateFails(t) ==
  LET c == call[t] IN
  /\ c.fn = "RunCommand" /\ c.pc = "communicate"
  /\ \E alive \in {"running", "exited"} :
       call' = [call EXCEPT ![t] =
         [Attempt(c, "communicate_error", None, None) EXCEPT
            !.pc = "finally", !.child = alive,
            !.pending = "OSError", !.pending_msg = "[Errno 32] Broken pipe"]]
  /\ UNCHANGED sigint

\* mutant of RestoredHandler: the handler is not restored
RestoredHandler_Never(c, handler) == handler

\* mutant of RestoredHandler: the restore is not in a finally clause
RestoredHandler_NotOnException(c, handler) ==
  IF c.args.ignore_sigint /\ c.pending = "" THEN c.old_sigint[1] ELSE handler

\* finally: if ignore_sigint: signal.signal(signal.SIGINT, old_sigint)
RestoredHandler(c, handler) ==
  IF c.args.ignore_sigint THEN c.old_sigint[1] ELSE handler

\* the rest of the try block after communicate, and the except clause
RunCommandOutcome(c) ==
  IF c.pending # "" THEN RunCommandExcept(c, c.pending, c.pending_msg)
  ELSE
    LET r == IF c.args.exit_code
               THEN [c EXCEPT !.cmd_result.returncode = c.returncode]
               ELSE c
    IN IF RunCommandFails(r.args.error_ok, r.returncode[1])
         THEN RunCommandExcept(r, "RunCommandError",
                RunCommandMessage(r.cmd_str, r.args.error_message,
                                  r.cmd_result.error, r.cmd_result.output))
         ELSE Returned(r, "CommandResult", None, None)

RunCommandFinally(t) ==
  LET c == call[t] IN
  /\ c.fn = "RunCommand" /\ c.pc = "finally"
  /\ sigint' = RestoredHandler(c, sigint)
  /\ call' = [call EXCEPT ![t] = RunCommandOutcome(c)]

---------------------------------------------------------------------------
(* OldRunCommand *)

\* the caller's name, as GetCallerName() gives it
CallerName == "script.py"

\* if enter_chroot:  cmd = ['./enter_chroot.sh', '--'] + cmd
\* (list + str is a TypeError)
OldRewriteRaises(cmd, enter_chroot) == enter_chroot /\ cmd.form = "str"

OldRunCommandRewrite(cmd, enter_chroot) ==
  IF ~enter_chroot THEN cmd
  ELSE ListCmd(<<"./enter_chroot.sh", "--">> \o cmd.l)

\* range(num_retries + 1) is empty
NoAttempts(num_retries) == num_retries + 1 <= 0

\* mutant of ReturnsExitCode: the exit code is never returned
ReturnsExitCode_Never(exit_code, retry_count, num_retries) == FALSE

\* mutant of ReturnsExitCode: the exit code is returned on any attempt
ReturnsExitCode_AnyAttempt(exit_code, retry_count, num_retries) == exit_code

\* if exit_code and retry_count == num_retries:  return proc.returncode
ReturnsExitCode(exit_code, retry_count, num_retries) ==
  exit_code /\ retry_count = num_retries

\* mutant of AttemptSucceeded: the break is missing
AttemptSucceeded_Never(returncode) == FALSE

\* if proc.returncode == 0:  break
AttemptSucceeded(returncode) == returncode = 0

\* 'Command "%r" failed.\n' % (cmd) + (error_message or error or output or '')
OldRunCommandMessage(cmd, error_message, error, output) ==
  "Command \"" \o Repr(cmd) \o "\" failed.\n"
    \o PyOr(error_message, error, output)

\* mutant of OldRunCommandRaises: error_ok is not consulted
OldRunCommandRaises_IgnoresErrorOk(error_ok, retry_count, num_retries) ==
  retry_count = num_retries

\* mutant of OldRunCommandRaises: the failure is raised on any attempt
OldRunCommandRaises_AnyAttempt(error_ok, retry_count, num_retries) == ~error_ok

\* if not error_ok and retry_count == num_retries:  raise e
OldRunCommandRaises(error_ok, retry_count, num_retries) ==
  ~error_ok /\ retry_count = num_retries

\* the end of an iteration of  for retry_count in range(num_retries + 1):
\* the next attempt, or  return output  after the last one
NextIteration(c) ==
  IF c.retry_count + 1 < c.args.num_retries + 1
    THEN [c EXCEPT !.pc = "spawn", !.retry_count = @ + 1]
    ELSE Returned(c, "output", None, c.output)

\* except RunCommandException as e
OldRunCommandExcept(c, msg) ==
  IF OldRunCommandRaises(c.args.error_ok, c.retry_count, c.args.num_retries)
    THEN Raised(c, "RunCommandException", msg)
    ELSE LET w == Warn(c, msg)
             i == IF c.args.print_cmd
                    THEN Inform(w, "PROGRAM(" \o CallerName
                                     \o ") -> RunCommand: retrying "
                                     \o Repr(c.cmd) \o " in dir None")
                    ELSE w
         IN NextIteration(i)

\* the body of the loop after communicate has returned
OldRunCommandOutcome(c) ==
  IF ReturnsExitCode(c.args.exit_code, c.retry_count, c.args.num_retries)
    THEN Returned(c, "returncode", c.returncode, None)
  ELSE IF AttemptSucceeded(c.returncode[1])
    THEN Returned(c, "output", None, c.output)
  ELSE OldRunCommandExcept(c,
         OldRunCommandMessage(c.cmd, c.args.error_message, c.error, c.output))

\* the setup of OldRunCommand up to the loop
OldRunCommandEntry(a, handler) ==
  LET c0 == [Idle EXCEPT !.fn = "OldRunCommand", !.args = a,
                         !.pre_sigint = Some(handler), !.output = Some("")]
  IN IF OldRewriteRaises(a.cmd, a.enter_chroot)
       THEN Raised(c0, "TypeError",
                   "can only concatenate list (not \"str\") to list")
       ELSE
         LET cmd == OldRunCommandRewrite(a.cmd, a.enter_chroot)
             c1 == [c0 EXCEPT !.cmd = cmd, !.cmd_str = Repr(cmd)]
             c2 == IF a.print_cmd
                     THEN Inform(c1, "PROGRAM(" \o CallerName
                                       \o ") -> RunCommand: " \o Repr(cmd)
                                       \o " in dir None")
                     ELSE c1
         IN IF NoAttempts(a.num_retries)
              THEN Returned(c2, "output", None, c2.output)
              ELSE [c2 EXCEPT !.pc = "spawn"]

OldRunCommandCall(t) ==
  /\ MayBegin(t)
  /\ \E a \in OldRunCommandArgs :
       call' = Begin(t, OldRunCommandEntry(a, sigint))
  /\ UNCHANGED sigint

\* proc = subprocess.Popen(...) returns
OldRunCommandSpawn(t) ==
  LET c == call[t] IN
  /\ c.fn = "OldRunCommand" /\ c.pc = "spawn"
  /\ CanSpawn(c.cmd)
  /\ call' = [call EXCEPT ![t] =
       [Popen(c) EXCEPT
          !.pc = "communicate", !.child = "running", !.spawns = @ + 1]]
  /\ UNCHANGED sigint

\* subprocess.Popen(...) raises: no except clause of the function matches
OldRunCommandSpawnFails(t) ==
  LET c == call[t] IN
  /\ c.fn = "OldRunCommand" /\ c.pc = "spawn"
  /\ call' = [call EXCEPT ![t] =
       Raised(Attempt(Popen(c), "spawn_error", None, None),
              SpawnError(c.cmd), SpawnErrorText(c.cmd))]
  /\ UNCHANGED sigint

\* (output, error) = proc.communicate(input) returns, and the rest of the
\* iteration
OldRunCommandCommunicate(t) ==
  LET c == call[t] IN
  /\ c.fn = "OldRunCommand" /\ c.pc = "communicate"
  /\ \E code \in ExitCodes, out \in ChildOut, err \in ChildErr :
       call' = [call EXCEPT ![t] =
         OldRunCommandOutcome(
           [Attempt(c, "exit", Some(code),
                   Captured(c.args.redirect_stdout, out)) EXCEPT
              !.child = "exited", !.returncode = Some(code),
              !.output = Captured(c.args.redirect_stdout, out),
              !.error = Captured(c.args.redirect_stderr, err)])]
  /\ UNCHANGED sigint

\* proc.communicate(input) raises: no except clause of the function matches
OldRunCommandCommunicateFails(t) ==
  LET c == call[t] IN
  /\ c.fn = "OldRunCommand" /\ c.pc = "communicate"
  /\ \E alive \in {"running", "exited"} :
       call' = [call EXCEPT ![t] =
         Raised([Attempt(c, "communicate_error", None, None) EXCEPT !.child = alive],
                "OSError", "[Errno 32] Broken pipe")]
  /\ UNCHANGED sigint

---------------------------------------------------------------------------
(* The caller takes the result or the exception; the frame is gone *)

CallEnds(t) ==
  /\ call[t].pc \in {"returned", "raised"}
  /\ call' = [call EXCEPT ![t] = Idle]
  /\ UNCHANGED sigint

---------------------------------------------------------------------------

Init ==
  /\ sigint \in Handlers
  /\ call = [t \in Threads |-> Idle]

Step(t) ==
  \/ RunCommandCall(t)
  \/ RunCommandSpawn(t)
  \/ RunCommandSpawnFails(t)
  \/ RunCommandGuard(t)
  \/ RunCommandCommunicate(t)
  \/ RunCommandCommunicateFails(t)
  \/ RunCommandFinally(t)
  \/ OldRunCommandCall(t)
  \/ OldRunCommandSpawn(t)
  \/ OldRunCommandSpawnFails(t)
  \/ OldRunCommandCommunicate(t)
  \/ OldRunCommandCommunicateFails(t)
  \/ CallEnds(t)

\* calls are serialized: one thread makes one call after the other
Next == Step(MainThread)

Spec == Init /\ [][Next]_vars

---------------------------------------------------------------------------
(* Calls of RunCommand from several threads of one process, not serialized *)

\* the arguments of the overlapping calls: the guard and error_ok vary
OverlappingArgs ==
  [cmd: {ListCmd(<<"ls", "-l">>)}, print_cmd: {FALSE}, error_ok: BOOLEAN,
   error_message: {None}, exit_code: {FALSE},
   redirect_stdout: {FALSE}, redirect_stderr: {FALSE},
   enter_chroot: {FALSE}, ignore_sigint: BOOLEAN, num_retries: {0}]

RunCommandCallOverlapping(t) == RunCommandBegins(t, OverlappingArgs)

StepOverlapping(t) ==
  \/ RunCommandCallOverlapping(t)
  \/ RunCommandSpawn(t)
  \/ RunCommandSpawnFails(t)
  \/ RunCommandGuard(t)
  \/ RunCommandCommunicate(t)
  \/ RunCommandCommunicateFails(t)
  \/ RunCommandFinally(t)
  \/ CallEnds(t)

NextOverlapping == \E t \in Threads : StepOverlapping(t)

SpecOverlapping == Init /\ [][NextOverlapping]_vars

---------------------------------------------------------------------------
(* Vocabulary of the properties *)

IsOld(c) == c.fn = "OldRunCommand"
IsNew(c) == c.fn = "RunCommand"
Ended(c) == c.pc \in {"returned", "raised"}
Attempted(c) == c.attempts # <<>>
LastAttempt(c) == c.attempts[Len(c.attempts)]
ExitedNonzero(a) == a.kind = "exit" /\ a.code[1] # 0
ExitedZero(a) == a.kind = "exit" /\ a.code[1] = 0

\* every attempt made so far spawned a child that exited nonzero
AlwaysFailed(c) ==
  /\ Attempted(c)
  /\ \A i \in 1..Len(c.attempts) : ExitedNonzero(c.attempts[i])

\* attempts 1..N exited nonzero and attempt N+1 exited 0
FailedThenSucceeded(c) ==
  /\ Len(c.attempts) = c.args.num_retries + 1
  /\ \A i \in 1..c.args.num_retries : ExitedNonzero(c.attempts[i])
  /\ ExitedZero(LastAttempt(c))

\* the value returned is the exit code or the captured stdout of attempt a
ReturnedResultOf(c, a) ==
  \/ c.ret_shape = "returncode" /\ c.ret_int = a.code
  \/ c.ret_shape = "output" /\ c.ret_output = a.output

---------------------------------------------------------------------------
(* C1 *)

\* C1 as stated: OldRunCommand with num_retries = N >= 0 and error_ok = False,
\* for every setting of the other options, on a command whose every attempt
\* exits nonzero, ends after exactly N+1 spawns by raising
\* RunCommandException.
C1_ExhaustionRaisesForAllOptions ==
  \A t \in Threads : LET c == call[t] IN
    (IsOld(c) /\ Ended(c) /\ c.args.num_retries >= 0 /\ ~c.args.error_ok
       /\ AlwaysFailed(c))
    => (c.spawns = c.args.num_retries + 1 /\ c.pc = "raised"
          /\ c.exc = "RunCommandException")

\* C1 amended: the same with exit_code = False: after exactly N+1 spawns, each
\* exiting nonzero, the call raises RunCommandException (and returns nothing).
C1_ExhaustionRaises ==
  \A t \in Threads : LET c == call[t] IN
    (IsOld(c) /\ Ended(c) /\ c.args.num_retries >= 0 /\ ~c.args.error_ok
       /\ ~c.args.exit_code /\ AlwaysFailed(c))
    => (c.spawns = c.args.num_retries + 1 /\ c.pc = "raised"
          /\ c.exc = "RunCommandException" /\ c.ret_shape = "")

C1_Witness ==
  \E t \in Threads : LET c == call[t] IN
    /\ IsOld(c) /\ c.pc = "raised" /\ c.exc = "RunCommandException"
    /\ c.args.num_retries >= 1 /\ ~c.args.error_ok /\ ~c.args.exit_code
    /\ AlwaysFailed(c) /\ c.spawns = c.args.num_retries + 1

---------------------------------------------------------------------------
(* C2 *)

\* C2: in OldRunCommand with num_retries = N >= 0 and either value of
\* error_ok, a call does not end while fewer than N+1 attempts have been made
\* and all of them exited nonzero; and when attempts 1..N exited nonzero and
\* attempt N+1 exited 0, the call returns the result of attempt N+1, has
\* emitted exactly N warnings and raises nothing.
C2_RetrySuccess ==
  \A t \in Threads : LET c == call[t] IN
    (IsOld(c) /\ Ended(c) /\ c.args.num_retries >= 0)
    => /\ AlwaysFailed(c) => Len(c.attempts) = c.args.num_retries + 1
       /\ FailedThenSucceeded(c)
            => /\ c.pc = "returned" /\ c.exc = ""
               /\ c.warnings = c.args.num_retries
               /\ ReturnedResultOf(c, LastAttempt(c))

C2_Witness ==
  \E t \in Threads : LET c == call[t] IN
    /\ IsOld(c) /\ c.pc = "returned" /\ c.args.num_retries >= 1
    /\ FailedThenSucceeded(c) /\ c.warnings = c.args.num_retries
    /\ c.ret_shape = "output" /\ c.ret_output = Some("out")

---------------------------------------------------------------------------
(* C3 *)

\* C3: in OldRunCommand, an attempt that exited with code 0 is the last
\* attempt spawned, whatever the number of attempts left, and the call has
\* returned a result of that attempt.
C3_StopOnFirstSuccess ==
  \A t \in Threads : LET c == call[t] IN
    IsOld(c) =>
      \A i \in 1..Len(c.attempts) :
        ExitedZero(c.attempts[i])
          => /\ i = Len(c.attempts) /\ c.spawns = i
             /\ c.pc = "returned"
             /\ ReturnedResultOf(c, c.attempts[i])

C3_Witness ==
  \E t \in Threads : LET c == call[t] IN
    /\ IsOld(c) /\ c.pc = "returned" /\ c.args.num_retries >= 2
    /\ Len(c.attempts) = 2 /\ ExitedNonzero(c.attempts[1])
    /\ c.attempts[1].output = Some("out")
    /\ ExitedZero(c.attempts[2]) /\ c.ret_output = Some("")

---------------------------------------------------------------------------
(* C4 *)

\* C4: when a RunCommand call with ignore_sigint = True has ended, by return
\* or by raise, the SIGINT handler is the one installed when the call began.
C4_GuardSymmetry ==
  \A t \in Threads : LET c == call[t] IN
    (IsNew(c) /\ c.args.ignore_sigint /\ Ended(c))
    => sigint = c.pre_sigint[1]

C4_Witness ==
  \E t \in Threads : LET c == call[t] IN
    /\ IsNew(c) /\ c.args.ignore_sigint /\ c.pc = "raised"
    /\ LastAttempt(c).kind = "communicate_error"
    /\ c.old_sigint = Some("default_int_handler")
    /\ sigint = "default_int_handler"

---------------------------------------------------------------------------
(* C5 *)

\* a single execution whose child exited nonzero, with error_ok = True
ToleratedExit(c) ==
  /\ Ended(c) /\ c.args.error_ok
  /\ IsNew(c) \/ (IsOld(c) /\ c.args.num_retries = 0)
  /\ Len(c.attempts) = 1 /\ ExitedNonzero(c.attempts[1])

---------------------------------------------------------------------------
(* C6 *)

\* C6: a RunCommand call with error_ok = False whose child exits nonzero ends
\* by raising RunCommandError, with no warning emitted and no result returned.
C6_NonzeroExitRaises ==
  \A t \in Threads : LET c == call[t] IN
    (IsNew(c) /\ Ended(c) /\ ~c.args.error_ok /\ Attempted(c)
       /\ ExitedNonzero(LastAttempt(c)))
    => (c.pc = "raised" /\ c.exc = "RunCommandError" /\ c.warnings = 0
          /\ c.ret_shape = "")

C6_Witness ==
  \E t \in Threads : LET c == call[t] IN
    /\ IsNew(c) /\ c.pc = "raised" /\ c.exc = "RunCommandError"
    /\ ~c.args.error_ok /\ LastAttempt(c).code = Some(MaxExit)
    /\ c.warnings = 0

---------------------------------------------------------------------------
(* C7 *)

\* C7: in both functions, a call that ends on an attempt whose spawn failed
\* (the command is not empty, the child could not be created) raises when
\* error_ok = False, and when error_ok = True returns without raising, the
\* failure warned and nothing captured in the result.
C7_SpawnErrorDowngrade ==
  \A t \in Threads : LET c == call[t] IN
    (Ended(c) /\ Attempted(c) /\ LastAttempt(c).kind = "spawn_error"
       /\ CanSpawn(c.cmd))
    => IF ~c.args.error_ok
         THEN c.pc = "raised"
         ELSE /\ c.pc = "returned" /\ c.exc = ""
              /\ c.warnings = Len(c.attempts)
              /\ c.last_warning = SpawnErrorText(c.cmd)
              /\ c.cmd_result.output = None /\ c.cmd_result.error = None

---------------------------------------------------------------------------
(* C8 *)

\* C8: every normal return of OldRunCommand (num_retries >= 0) yields the exit
\* code of the attempt that ended the loop when exit_code = True, and the
\* captured stdout of that attempt when exit_code = False.
C8_ShapeFollowsExitCode ==
  \A t \in Threads : LET c == call[t] IN
    (IsOld(c) /\ c.pc = "returned" /\ c.args.num_retries >= 0)
    => IF c.args.exit_code
         THEN c.ret_shape = "returncode" /\ c.ret_int = LastAttempt(c).code
         ELSE c.ret_shape = "output" /\ c.ret_output = LastAttempt(c).output

---------------------------------------------------------------------------
(* C9 *)

\* C9: in OldRunCommand with num_retries = N, a call that ends by a raise on
\* an attempt that exited nonzero or failed to spawn (the command is not
\* empty) has made N+1 attempts: no failure of an attempt of index < N
\* reaches the caller.
C9_OnlyFinalAttemptPropagates ==
  \A t \in Threads : LET c == call[t] IN
    (IsOld(c) /\ c.pc = "raised" /\ c.args.num_retries >= 0 /\ Attempted(c)
       /\ LastAttempt(c).kind \in {"exit", "spawn_error"}
       /\ CanSpawn(c.cmd))
    => Len(c.attempts) = c.args.num_retries + 1

---------------------------------------------------------------------------
(* C10 *)

\* C10 as stated: in every CommandResult RunCommand returns for a command
\* that is not empty, a tolerated spawn failure included, output is populated
\* iff redirect_stdout and error is populated iff redirect_stderr.
C10_CaptureIffRequested ==
  \A t \in Threads : LET c == call[t] IN
    (IsNew(c) /\ c.pc = "returned" /\ CanSpawn(c.cmd)
       /\ LastAttempt(c).kind \in {"exit", "spawn_error"})
    => /\ c.cmd_result.output # None <=> c.args.redirect_stdout
       /\ c.cmd_result.error # None <=> c.args.redirect_stderr

\* C10 amended: in every CommandResult RunCommand returns after communicate
\* has returned (success or tolerated nonzero exit), output is populated iff
\* redirect_stdout and error is populated iff redirect_stderr; in a
\* CommandResult returned after a tolerated failure of the spawn or of
\* communicate both are absent, whatever was requested.
C10_CaptureIffRequestedAndCommunicated ==
  \A t \in Threads : LET c == call[t] IN
    (IsNew(c) /\ c.pc = "returned")
    => IF LastAttempt(c).kind = "exit"
         THEN /\ c.cmd_result.output # None <=> c.args.redirect_stdout
              /\ c.cmd_result.error # None <=> c.args.redirect_stderr
         ELSE c.cmd_result.output = None /\ c.cmd_result.error = None

C10_Witness ==
  \E t \in Threads : LET c == call[t] IN
    /\ IsNew(c) /\ c.pc = "returned" /\ c.args.error_ok
    /\ c.args.redirect_stdout /\ ~c.args.redirect_stderr
    /\ ExitedNonzero(LastAttempt(c))
    /\ c.cmd_result.output = Some("out") /\ c.cmd_result.error = None

---------------------------------------------------------------------------
(* C11 *)

\* the caller passed an empty command or a negative retry count
InvalidInput(c) ==
  /\ c.fn # "none"
  /\ c.args.cmd = ListCmd(<<>>) \/ c.args.num_retries < 0

\* C11: a call with an invalid input (an empty command, a negative
\* num_retries) creates no child, makes no second attempt, emits no warning
\* and ends by raising, for both values of error_ok.
C11_InvalidInputRaises ==
  \A t \in Threads : LET c == call[t] IN
    InvalidInput(c)
    => /\ c.spawns = 0 /\ Len(c.attempts) <= 1 /\ c.warnings = 0
       /\ Ended(c) => c.pc = "raised"

---------------------------------------------------------------------------
(* C12 *)

\* the chroot-entry program, the separator and the original command, in the
\* form of the original command
ChrootForm(cmd, enter_chroot) ==
  IF ~enter_chroot THEN cmd
  ELSE IF cmd.form = "str" THEN StrCmd("./enter_chroot.sh" \o " -- " \o cmd.s)
  ELSE ListCmd(<<"./enter_chroot.sh", "--">> \o cmd.l)

\* C12: in both functions and for both forms of command, a call (num_retries
\* >= 0) that has ended has passed a command to Popen, every command it passed
\* is the caller's command after the chroot rewrite, in the caller's form,
\* and the CommandResult of RunCommand records the same command.
C12_ChrootRewriteExecutes ==
  \A t \in Threads : LET c == call[t] IN
    (c.fn # "none" /\ Ended(c) /\ c.args.num_retries >= 0)
    => /\ Len(c.popen) >= 1
       /\ \A i \in 1..Len(c.popen) :
            c.popen[i].cmd = ChrootForm(c.args.cmd, c.args.enter_chroot)
       /\ IsNew(c)
            => c.cmd_result.cmd
                 = Some(ChrootForm(c.args.cmd, c.args.enter_chroot))

---------------------------------------------------------------------------
(* C13 *)

\* C13: in both functions and for every setting of the options, an attempt
\* whose child exited with code 0 is followed by no raise and no warning: the
\* only warnings are those of the earlier attempts, and the call, once
\* ended, has returned.
C13_ZeroExitIsNoFailure ==
  \A t \in Threads : LET c == call[t] IN
    (Attempted(c) /\ ExitedZero(LastAttempt(c)))
    => /\ c.pc \in {"finally", "returned"}
       /\ c.exc = "" /\ c.pending = ""
       /\ c.warnings = Len(c.attempts) - 1

C13_Witness ==
  \E t \in Threads : LET c == call[t] IN
    /\ IsNew(c) /\ c.pc = "returned" /\ ExitedZero(LastAttempt(c))
    /\ ~c.args.error_ok /\ c.args.exit_code /\ c.args.redirect_stderr
    /\ c.args.error_message # None /\ c.cmd_result.error = Some("err")
    /\ c.cmd_result.returncode = Some(0) /\ c.warnings = 0

---------------------------------------------------------------------------
(* C14 *)

\* C14: in RunCommand with ignore_sigint = True, at every moment at which the
\* child exists the SIGINT handler is the ignoring one.
C14_GuardCoversChild ==
  \A t \in Threads : LET c == call[t] IN
    (IsNew(c) /\ c.args.ignore_sigint /\ c.child = "running")
    => sigint = "SIG_IGN"

---------------------------------------------------------------------------
(* C15 *)

---------------------------------------------------------------------------
(* C16 *)

\* C16: OldRunCommand with num_retries = N >= 0, error_ok = True and
\* exit_code = False, all of whose attempts exited nonzero, has when it ends
\* made exactly N+1 attempts; it returns the captured stdout of the last one,
\* has warned N+1 times and raises nothing.
C16_ToleratedExhaustion ==
  \A t \in Threads : LET c == call[t] IN
    (IsOld(c) /\ Ended(c) /\ c.args.num_retries >= 0 /\ c.args.error_ok
       /\ ~c.args.exit_code /\ AlwaysFailed(c))
    => /\ Len(c.attempts) = c.args.num_retries + 1
       /\ c.spawns = c.args.num_retries + 1
       /\ c.pc = "returned" /\ c.exc = ""
       /\ c.warnings = c.args.num_retries + 1
       /\ c.ret_shape = "output" /\ c.ret_output = LastAttempt(c).output

C16_Witness ==
  \E t \in Threads : LET c == call[t] IN
    /\ IsOld(c) /\ c.pc = "returned" /\ c.args.num_retries >= 1
    /\ c.args.error_ok /\ ~c.args.exit_code /\ AlwaysFailed(c)
    /\ c.attempts[1].output = Some("out") /\ c.ret_output = Some("")
    /\ c.warnings = c.args.num_retries + 1

---------------------------------------------------------------------------
(* C17 *)

\* what follows the command in the text: error_message if given, else the
\* captured stderr if it is not empty, else the captured stdout if there is
\* one, else nothing
PreferredDetail(error_message, error, output) ==
  IF error_message # None /\ error_message # Some("") THEN error_message[1]
  ELSE IF error # None /\ error # Some("") THEN error[1]
  ELSE IF output # None THEN output[1]
  ELSE ""

\* the text of a failure of the command rendered as shown
FailureText(shown, error_message, error, output) ==
  "Command \"" \o shown \o "\" failed.\n"
    \o PreferredDetail(error_message, error, output)

\* C17: the text of the failure raised for a nonzero exit, and of the warning
\* emitted for it when it is tolerated or retried, is the rendered command
\* followed by the preferred detail of the attempt that failed.
C17_MessagePreference ==
  \A t \in Threads : LET c == call[t] IN
    /\ (IsNew(c) /\ c.exc = "RunCommandError")
         => c.exc_msg = FailureText(CmdStr(c.cmd), c.args.error_message,
                                    c.cmd_result.error, c.cmd_result.output)
    /\ (IsOld(c) /\ c.exc = "RunCommandException")
         => c.exc_msg = FailureText(Repr(c.cmd), c.args.error_message,
                                    c.error, c.output)
    /\ (IsOld(c) /\ c.warnings > 0
          /\ (c.pc = "spawn" \/ (c.pc = "returned" /\ c.ret_shape = "output"
                                   /\ ExitedNonzero(LastAttempt(c)))))
         => c.last_warning = FailureText(Repr(c.cmd), c.args.error_message,
                                         c.error, c.output)

C17_Witness ==
  \E t \in Threads : LET c == call[t] IN
    /\ IsNew(c) /\ c.pc = "raised" /\ c.exc = "RunCommandError"
    /\ c.args.error_message = None
    /\ c.cmd_result.error = Some("err") /\ c.cmd_result.output = Some("out")
    /\ c.exc_msg = "Command \"ls -l\" failed.\nerr"

---------------------------------------------------------------------------
(* C18 *)

\* C18: in OldRunCommand with num_retries = N >= 0 no more than N+1 children
\* are spawned, a call that has ended has called Popen at least once, and
\* every call of Popen has the arguments of the first.
C18_AttemptBoundAndFrame ==
  \A t \in Threads : LET c == call[t] IN
    (IsOld(c) /\ c.args.num_retries >= 0)
    => /\ c.spawns <= c.args.num_retries + 1
       /\ Len(c.popen) <= c.args.num_retries + 1
       /\ Ended(c) => Len(c.popen) >= 1
       /\ \A i \in 1..Len(c.popen) : c.popen[i] = c.popen[1]

---------------------------------------------------------------------------
(* C19 *)

\* C19: a RunCommand call with error_ok = True that has ended has returned a
\* CommandResult, whatever failed (spawn, communicate, nonzero exit); its cmd
\* is the command passed to Popen, and after a failed spawn its output, error
\* and returncode are absent.
C19_ErrorOkAlwaysReturns ==
  \A t \in Threads : LET c == call[t] IN
    (IsNew(c) /\ c.args.error_ok /\ Ended(c))
    => /\ c.pc = "returned" /\ c.exc = "" /\ c.ret_shape = "CommandResult"
       /\ c.cmd_result.cmd = Some(c.popen[1].cmd)
       /\ c.cmd_result.cmd
            = Some(ChrootForm(c.args.cmd, c.args.enter_chroot))
       /\ LastAttempt(c).kind = "spawn_error"
            => /\ c.cmd_result.output = None /\ c.cmd_result.error = None
               /\ c.cmd_result.returncode = None

C19_Witness ==
  \E t \in Threads : LET c == call[t] IN
    /\ IsNew(c) /\ c.pc = "returned" /\ c.args.error_ok
    /\ LastAttempt(c).kind = "spawn_error" /\ CanSpawn(c.cmd)
    /\ c.args.redirect_stdout /\ c.args.redirect_stderr /\ c.args.exit_code
    /\ c.args.enter_chroot /\ c.args.cmd.form = "str"
    /\ c.cmd_result.output = None /\ c.warnings = 1

---------------------------------------------------------------------------
(* C20 *)

====
